---- MODULE Spec2Model ----
(***************************************************************************)
(* The Synacor virtual machine of src/src/lib.rs, driven through its       *)
(* public interface (Machine::new, Default::default, load, tick, exec).    *)
(*                                                                         *)
(* Memory is a Vec<u16>.  It is kept here as its length and the map of its *)
(* nonzero words, which is the same array without the 32768 zeros written  *)
(* out: memory.len is Vec::len, mem_at reads a word, mem_put writes one.   *)
(* A panic ends the process: result = "panic" and no operation follows.    *)
(***************************************************************************)
EXTENDS Integers, Sequences, FiniteSets, TLC

\* ---- constants of the program -------------------------------------------
MemSize     == 32768
NumRegs     == 8
MaxLiteral  == 32767
RegBase     == 32768
MaxRegister == 32775
Modulus     == 32768
Mask15      == 32767
MaxOpcode   == 21
WordRange   == 65536
ByteRange   == 256

\* ---- bounds of the model ------------------------------------------------
MaxSteps == 4
MaxInput == 1

VARIABLES memory, registers, stack, pos, stdin, stdout, result, read, caller,
          last, steps, file

vars == <<memory, registers, stack, pos, stdin, stdout, result, read, caller,
          last, steps, file>>

\* ---- u16 bit operations ---------------------------------------------------
RECURSIVE bits_and(_, _, _)
bits_and(x, y, n) ==
    IF n = 0 THEN 0
    ELSE (x % 2) * (y % 2) + 2 * bits_and(x \div 2, y \div 2, n - 1)

RECURSIVE bits_or(_, _, _)
bits_or(x, y, n) ==
    IF n = 0 THEN 0
    ELSE (IF x % 2 = 1 \/ y % 2 = 1 THEN 1 ELSE 0)
         + 2 * bits_or(x \div 2, y \div 2, n - 1)

bitand(x, y) == bits_and(x, y, 16)
bitor(x, y)  == bits_or(x, y, 16)
bitnot(x)    == (WordRange - 1) - x

\* ---- memory as length + nonzero words -------------------------------------
mem_at(a) == IF a \in DOMAIN memory.words THEN memory.words[a] ELSE 0

mem_put(m, a, v) ==
    [m EXCEPT !.words =
        [x \in (IF v = 0 THEN DOMAIN m.words \ {a} ELSE DOMAIN m.words \cup {a})
            |-> IF x = a THEN v ELSE m.words[x]]]

\* ---- constructors -----------------------------------------------------------
\* Machine::new: vec![0; 32768], vec![0; 8]
new ==
    [memory    |-> [len |-> MemSize, words |-> <<>>],
     registers |-> [r \in 0..(NumRegs - 1) |-> 0]]

\* Default::default: vec![0, 32768] and vec![0, 8] are the two-element
\* vectors [0, 32768] and [0, 8]
default ==
    [memory    |-> [len |-> 2, words |-> (1 :> MemSize)],
     registers |-> (0 :> 0 @@ 1 :> NumRegs)]

\* ---- registers and operand resolution ---------------------------------------
\* registers[(reg - 32768) as usize]: reg < 32768 underflows (a panic, or an
\* index of 32768 or more when the subtraction wraps), an index past the
\* vector's end panics
register_ok(reg) == reg >= RegBase /\ (reg - RegBase) \in DOMAIN registers

get_register(reg) == registers[reg - RegBase]

\* faulty variant: the index is off by one
set_register_off(reg, val) ==
    [registers EXCEPT ![(reg - RegBase + 1) % NumRegs] = val]

set_register(reg, val) == [registers EXCEPT ![reg - RegBase] = val]

value_ok(arg) ==
    \/ arg <= MaxLiteral
    \/ arg > MaxLiteral /\ arg <= MaxRegister /\ register_ok(arg)

value(arg) == IF arg <= MaxLiteral THEN arg ELSE get_register(arg)

\* ---- arithmetic -------------------------------------------------------------
add(a, b) == (a + b) % Modulus

\* faulty variant: the product is truncated to a u16 and the modulus is forgotten
mult_u16(a, b) == (a * b) % WordRange

mult(a, b) == (a * b) % Modulus

\* ---- decoder ------------------------------------------------------------------
arity(op) ==
    CASE op \in {0, 18, 21} -> 0
      [] op \in {2, 3, 6, 17, 19, 20} -> 1
      [] op \in {1, 7, 8, 14, 15, 16} -> 2
      [] op \in {4, 5, 9, 10, 11, 12, 13} -> 3
      [] OTHER -> 0

opcode == mem_at(pos)

\* every next() of match_opcode indexes inside the vector
fetch_ok == pos + arity(opcode) < memory.len

arg(k) == mem_at(pos + k)

args == [k \in 1..arity(opcode) |-> arg(k)]

\* self.pos once match_opcode has returned
fetched == (pos + 1 + arity(opcode)) % WordRange

\* ---- the arms of tick: the fields after the arm and what tick returns -------
\* ret: "continue" is true, "stop" is false, "panic" is an unwinding panic
proceed ==
    [registers |-> registers, memory |-> memory, stack |-> stack,
     pos |-> fetched, stdin |-> stdin, stdout |-> stdout, ret |-> "continue"]

panic == [proceed EXCEPT !.ret = "panic"]

top == stack[Len(stack)]

popped == SubSeq(stack, 1, Len(stack) - 1)

\* print!("{}", c as char): the UTF-8 encoding of U+0000..U+00FF
utf8(c) == IF c < 128 THEN <<c>> ELSE <<192 + (c \div 64), 128 + (c % 64)>>

Halt == [proceed EXCEPT !.ret = "stop"]

\* faulty variant: a literal destination below the register count is taken
\* as a register index
Set_index(a, b) ==
    IF value_ok(b) /\ (register_ok(a) \/ a \in DOMAIN registers)
    THEN [proceed EXCEPT !.registers =
             IF register_ok(a) THEN set_register(a, value(b))
                               ELSE [registers EXCEPT ![a] = value(b)]]
    ELSE panic

Set(a, b) ==
    IF value_ok(b) /\ register_ok(a)
    THEN [proceed EXCEPT !.registers = set_register(a, value(b))]
    ELSE panic

\* faulty variant: the raw operand is pushed, not its value
Push_raw(a) == [proceed EXCEPT !.stack = Append(stack, a)]

Push(a) ==
    IF value_ok(a)
    THEN [proceed EXCEPT !.stack = Append(stack, value(a))]
    ELSE panic

\* faulty variant: the pop of an empty stack is unwrapped and panics
Pop_unwrap(a) ==
    IF stack = <<>> THEN panic
    ELSE IF register_ok(a)
    THEN [proceed EXCEPT !.stack = popped, !.registers = set_register(a, top)]
    ELSE [panic EXCEPT !.stack = popped]

\* line 158 passes `top`, the Option that holds top_value
Pop(a) ==
    IF stack = <<>> THEN [proceed EXCEPT !.ret = "stop"]
    ELSE IF register_ok(a)
    THEN [proceed EXCEPT !.stack = popped, !.registers = set_register(a, top)]
    ELSE [panic EXCEPT !.stack = popped]

Eq(a, b, c) ==
    IF value_ok(b) /\ value_ok(c) /\ register_ok(a)
    THEN [proceed EXCEPT !.registers =
             set_register(a, IF value(b) = value(c) THEN 1 ELSE 0)]
    ELSE panic

Gt(a, b, c) ==
    IF value_ok(b) /\ value_ok(c) /\ register_ok(a)
    THEN [proceed EXCEPT !.registers =
             set_register(a, IF value(b) > value(c) THEN 1 ELSE 0)]
    ELSE panic

Jmp(a) ==
    IF value_ok(a) THEN [proceed EXCEPT !.pos = value(a)] ELSE panic

Jt(a, b) ==
    IF ~value_ok(a) THEN panic
    ELSE IF value(a) # 0
    THEN (IF value_ok(b) THEN [proceed EXCEPT !.pos = value(b)] ELSE panic)
    ELSE proceed

\* faulty variant: the target is resolved before the condition is looked at
Jf_eager(a, b) ==
    IF ~value_ok(a) \/ ~value_ok(b) THEN panic
    ELSE IF value(a) = 0 THEN [proceed EXCEPT !.pos = value(b)]
    ELSE proceed

Jf(a, b) ==
    IF ~value_ok(a) THEN panic
    ELSE IF value(a) = 0
    THEN (IF value_ok(b) THEN [proceed EXCEPT !.pos = value(b)] ELSE panic)
    ELSE proceed

Add(a, b, c) ==
    IF value_ok(b) /\ value_ok(c) /\ register_ok(a)
    THEN [proceed EXCEPT !.registers = set_register(a, add(value(b), value(c)))]
    ELSE panic

Mult(a, b, c) ==
    IF value_ok(b) /\ value_ok(c) /\ register_ok(a)
    THEN [proceed EXCEPT !.registers = set_register(a, mult(value(b), value(c)))]
    ELSE panic

Mod(a, b, c) ==
    IF value_ok(b) /\ value_ok(c) /\ value(c) # 0 /\ register_ok(a)
    THEN [proceed EXCEPT !.registers = set_register(a, value(b) % value(c))]
    ELSE panic

And(a, b, c) ==
    IF value_ok(b) /\ value_ok(c) /\ register_ok(a)
    THEN [proceed EXCEPT !.registers =
             set_register(a, bitand(value(b), value(c)))]
    ELSE panic

Or(a, b, c) ==
    IF value_ok(b) /\ value_ok(c) /\ register_ok(a)
    THEN [proceed EXCEPT !.registers =
             set_register(a, bitor(value(b), value(c)))]
    ELSE panic

Not(a, b) ==
    IF value_ok(b) /\ register_ok(a)
    THEN [proceed EXCEPT !.registers =
             set_register(a, bitand(bitnot(value(b)), Mask15))]
    ELSE panic

\* faulty variant: the address wraps around the memory
Rmem_wrap(a, b) ==
    IF value_ok(b) /\ register_ok(a)
    THEN [proceed EXCEPT !.registers =
             set_register(a, mem_at(value(b) % memory.len))]
    ELSE panic

Rmem(a, b) ==
    IF value_ok(b) /\ value(b) < memory.len /\ register_ok(a)
    THEN [proceed EXCEPT !.registers = set_register(a, mem_at(value(b)))]
    ELSE panic

\* faulty variant: the raw second operand is stored, not its value
Wmem_raw(a, b) ==
    IF value_ok(a) /\ value_ok(b) /\ value(a) < memory.len
    THEN [proceed EXCEPT !.memory = mem_put(memory, value(a), b)]
    ELSE panic

Wmem(a, b) ==
    IF value_ok(a) /\ value_ok(b) /\ value(a) < memory.len
    THEN [proceed EXCEPT !.memory = mem_put(memory, value(a), value(b))]
    ELSE panic

\* faulty variant: the address of the call itself is pushed
Call_self(a) ==
    IF value_ok(a)
    THEN [proceed EXCEPT !.stack = Append(stack, pos), !.pos = value(a)]
    ELSE [panic EXCEPT !.stack = Append(stack, pos)]

\* the push comes before value(a) can panic
Call(a) ==
    IF value_ok(a)
    THEN [proceed EXCEPT !.stack = Append(stack, fetched), !.pos = value(a)]
    ELSE [panic EXCEPT !.stack = Append(stack, fetched)]

Ret ==
    IF stack = <<>> THEN [proceed EXCEPT !.ret = "stop"]
    ELSE [proceed EXCEPT !.stack = popped, !.pos = top]

Out(a) ==
    IF value_ok(a)
    THEN [proceed EXCEPT !.stdout = stdout \o utf8(value(a) % ByteRange)]
    ELSE panic

\* the byte is taken from stdin before set_register can panic
In(a) ==
    IF stdin = <<>> THEN panic
    ELSE IF register_ok(a)
    THEN [proceed EXCEPT !.stdin = Tail(stdin),
                         !.registers = set_register(a, Head(stdin))]
    ELSE [panic EXCEPT !.stdin = Tail(stdin)]

Noop == proceed

\* faulty variant: an unknown opcode is skipped like a noop
None_skip == proceed

None == panic

\* ---- load -----------------------------------------------------------------
\* (buf[i] as u16) | ((buf[i + 1] as u16) << 8)
le_word(b0, b1) == bitor(b0, (b1 * ByteRange) % WordRange)

\* the words of buf, word k from bytes 2k and 2k+1 (Sequences count from 1)
buf_word(buf, k) == le_word(buf[2 * k + 1], buf[2 * k + 2])

\* `while i < buf.len() - 1` runs for i = 0, 2, ..: Len(buf) \div 2 rounds; on
\* an empty buf the subtraction underflows and nothing is written
rounds(buf) == Len(buf) \div 2

\* load returns Ok(read): buf is not empty, every memory[i / 2] is inside the
\* vector and read fits a u16
load_ok(buf) ==
    /\ Len(buf) > 0
    /\ rounds(buf) <= memory.len
    /\ Len(buf) < WordRange

\* the memory when load returns or panics: the rounds before the first index
\* past the vector's end have written their word
load(buf) ==
    LET n == IF rounds(buf) <= memory.len THEN rounds(buf) ELSE memory.len
    IN  [memory EXCEPT !.words =
            [a \in {k \in 0..(n - 1) : buf_word(buf, k) # 0}
                   \cup {x \in DOMAIN memory.words : x >= n}
                |-> IF a < n THEN buf_word(buf, a) ELSE memory.words[a]]]

\* ---- program images and input streams the model runs -------------------------
le_bytes(ws) ==
    [i \in 1..(2 * Len(ws)) |->
        IF i % 2 = 1 THEN ws[(i + 1) \div 2] % ByteRange
                     ELSE ws[i \div 2] \div ByteRange]

Lit == {0, 1, 65, 200, 300, 32767}
Reg == {32768, 32769, 32775}
Bad == {32776, 65535}
Src == Lit \cup Reg \cup Bad
Dst == Reg \cup {0, 32767, 32776}
AllRegs == RegBase..MaxRegister

\* one or two instructions placed at address base
Bodies(base) ==
    {<<0>>, <<18>>, <<21>>, <<22>>, <<65535>>}
    \cup {<<1, d, s>> : d \in AllRegs, s \in {0, 200, 32767, 32769}}
    \cup {<<1, d, s>> : d \in {32768, 0, 32767, 32776},
                         s \in {1, 32775, 32776, 65535}}
    \cup {<<op, s>> : op \in {2, 6, 17, 19}, s \in Src}
    \cup {<<op, d>> : op \in {3, 20}, d \in Dst}
    \cup {<<op, s, t>> : op \in {7, 8},
                         s \in {0, 32767, 32768, 32776},
                         t \in {base + 5, 32769, 32776}}
    \cup {<<op, d, a, b>> : op \in {9, 10},
                            d \in {32768, 32775, 0},
                            a \in {0, 3, 32767, 32768, 32776},
                            b \in {2, 32767, 32768}}
    \cup {<<op, d, a, b>> : op \in {4, 5, 11, 12, 13},
                            d \in {32768, 0},
                            a \in {3, 32767, 32776},
                            b \in {0, 2, 32768}}
    \cup {<<op, d, s>> : op \in {14, 15}, d \in {32768, 32775, 0},
                         s \in {0, 1, 32767, 32768, 32776}}
    \cup {<<16, a, b>> : a \in {0, base + 3, 32767, 32768, 32776},
                         b \in {0, 21, 65, 32768, 32776}}
    \cup {<<2, s, 3, d>> : s \in {0, 300, 32767, 32768, 32775, 32776},
                            d \in {32768, 32769, 0, 32776}}
    \cup {<<17, base + 3, 21, 18>>, <<17, 32768, 21, 18>>, <<17, base + 2, 18>>}
    \cup {<<14, d, v, 14, d, d>> : d \in {32768, 32769},
                                   v \in {0, 1, 32767, 32768}}
    \cup {<<16, a, b, 15, d, a>> : a \in {base + 7, 32767, 32768},
                                   b \in {65, 32768},
                                   d \in {32768, 32769}}
    \cup {<<16, 32767, 6, 6, 32767>>}

Setups ==
    {<<>>, <<0>>, <<1, 32768, 6>>, <<1, 32768, 32767>>, <<2, 32767>>,
     <<15, 32768, 1>>}

Programs == UNION {{s \o b : b \in Bodies(Len(s))} : s \in Setups}

\* the images, the empty file and a file of odd length
Files == {le_bytes(p) : p \in Programs} \cup {<<>>, le_bytes(<<19, 65>>) \o <<7>>}

InputBytes == {0, 65}

Inputs == UNION {[1..n -> InputBytes] : n \in 0..MaxInput}

\* ---- the state after construction -----------------------------------------
Init ==
    /\ \E m \in {new, default} :
          /\ memory = m.memory
          /\ registers = m.registers
    /\ stack = <<>>
    /\ pos = 0
    /\ stdin \in Inputs
    /\ stdout = <<>>
    /\ result = "new"
    /\ read = 0
    /\ caller = "idle"
    /\ last = [op |-> -1, args |-> <<>>, pos |-> 0, stack |-> <<>>,
               registers |-> registers]
    /\ steps = 0
    /\ file = <<>>

\* ---- load, called once on the new machine (main.rs:10-11) -------------------
Load ==
    /\ result = "new"
    /\ \E buf \in Files :
          /\ memory' = load(buf)
          /\ result' = IF load_ok(buf) THEN "loaded" ELSE "panic"
          /\ read' = IF load_ok(buf) THEN Len(buf) ELSE read
          /\ file' = buf
    /\ UNCHANGED <<registers, stack, pos, stdin, stdout, caller, last, steps>>

\* File::open or read_to_end returns Err: `?` returns it, main reads 0
LoadErr ==
    /\ result = "new"
    /\ result' = "load_err"
    /\ read' = 0
    /\ UNCHANGED <<memory, registers, stack, pos, stdin, stdout, caller, last,
                   steps, file>>

\* ---- tick -------------------------------------------------------------------
\* exec is `while self.tick() {}`: inside exec the loop goes on while tick
\* returns true and exec returns when it returns false
Commit(e) ==
    /\ registers' = e.registers
    /\ memory' = e.memory
    /\ stack' = e.stack
    /\ pos' = e.pos
    /\ stdin' = e.stdin
    /\ stdout' = e.stdout
    /\ result' = e.ret
    /\ caller' = IF caller = "exec" /\ e.ret = "continue" THEN "exec" ELSE "idle"
    /\ last' = [op |-> IF fetch_ok THEN opcode ELSE -1,
                args |-> IF fetch_ok THEN args ELSE <<>>,
                pos |-> pos, stack |-> stack, registers |-> registers]
    /\ steps' = steps + 1
    /\ UNCHANGED <<read, file>>

CanTick == result # "panic" /\ steps < MaxSteps

Tick(k, e) == CanTick /\ fetch_ok /\ opcode = k /\ Commit(e)

TickHalt == Tick(0, Halt)
TickSet  == Tick(1, Set(arg(1), arg(2)))
TickPush == Tick(2, Push(arg(1)))
TickPop  == Tick(3, Pop(arg(1)))
TickEq   == Tick(4, Eq(arg(1), arg(2), arg(3)))
TickGt   == Tick(5, Gt(arg(1), arg(2), arg(3)))
TickJmp  == Tick(6, Jmp(arg(1)))
TickJt   == Tick(7, Jt(arg(1), arg(2)))
TickJf   == Tick(8, Jf(arg(1), arg(2)))
TickAdd  == Tick(9, Add(arg(1), arg(2), arg(3)))
TickMult == Tick(10, Mult(arg(1), arg(2), arg(3)))
TickMod  == Tick(11, Mod(arg(1), arg(2), arg(3)))
TickAnd  == Tick(12, And(arg(1), arg(2), arg(3)))
TickOr   == Tick(13, Or(arg(1), arg(2), arg(3)))
TickNot  == Tick(14, Not(arg(1), arg(2)))
TickRmem == Tick(15, Rmem(arg(1), arg(2)))
TickWmem == Tick(16, Wmem(arg(1), arg(2)))
TickCall == Tick(17, Call(arg(1)))
TickRet  == Tick(18, Ret)
TickOut  == Tick(19, Out(arg(1)))
TickIn   == Tick(20, In(arg(1)))
TickNoop == Tick(21, Noop)

\* a word above 21 decodes to OpCode::None and tick panics
TickNone == CanTick /\ fetch_ok /\ opcode > MaxOpcode /\ Commit(None)

\* a next() of match_opcode indexes past the vector's end: pos stays at the
\* index that failed
NextPanic ==
    /\ CanTick
    /\ ~fetch_ok
    /\ Commit([panic EXCEPT !.pos = IF pos >= memory.len THEN pos ELSE memory.len])

\* a call of exec
Exec ==
    /\ result # "panic"
    /\ caller = "idle"
    /\ steps < MaxSteps
    /\ caller' = "exec"
    /\ UNCHANGED <<memory, registers, stack, pos, stdin, stdout, result, read,
                   last, steps, file>>

Next ==
    \/ Load \/ LoadErr \/ Exec
    \/ TickHalt \/ TickSet \/ TickPush \/ TickPop \/ TickEq \/ TickGt
    \/ TickJmp \/ TickJt \/ TickJf \/ TickAdd \/ TickMult \/ TickMod
    \/ TickAnd \/ TickOr \/ TickNot \/ TickRmem \/ TickWmem \/ TickCall
    \/ TickRet \/ TickOut \/ TickIn \/ TickNoop \/ TickNone \/ NextPanic

Spec == Init /\ [][Next]_vars

\* ---- types ------------------------------------------------------------------
TypeOK ==
    /\ memory.len \in {2, MemSize}
    /\ \A a \in DOMAIN memory.words : memory.words[a] \in 1..(WordRange - 1)
    /\ \A r \in DOMAIN registers : registers[r] \in 0..(WordRange - 1)
    /\ \A i \in 1..Len(stack) : stack[i] \in 0..(WordRange - 1)
    /\ pos \in 0..(WordRange - 1)
    /\ \A i \in 1..Len(stdout) : stdout[i] \in 0..(ByteRange - 1)
    /\ result \in {"new", "loaded", "load_err", "continue", "stop", "panic"}
    /\ caller \in {"idle", "exec"}
    /\ steps \in 0..MaxSteps
    /\ \A i \in 1..Len(file) : file[i] \in 0..(ByteRange - 1)

\* ---- properties -------------------------------------------------------------
\* the step is a call of tick
Ticked == steps' = steps + 1

\* the step is a tick whose match_opcode returned the instruction with opcode k
Executes(k) == Ticked /\ fetch_ok /\ opcode = k

\* an operand as the instruction set defines its resolution over registers regs
Resolvable(regs, x) ==
    x <= 32767 \/ (x >= 32768 /\ x <= 32775 /\ (x - 32768) \in DOMAIN regs)

Resolved(regs, x) == IF x <= 32767 THEN x ELSE regs[x - 32768]

\* the instruction of the previous tick completed and tick returned true
After(k) == last.op = k /\ result = "continue"

\* C1: a tick that executes `pop D` or `ret` on an empty stack returns false
\* ("stop"), never panics, and leaves the registers, the memory and the empty
\* stack as they were.
C1_EmptyStackStops ==
    [][(Executes(3) \/ Executes(18)) /\ stack = <<>>
         => /\ result' = "stop"
            /\ registers' = registers
            /\ memory' = memory
            /\ stack' = <<>>]_vars

\* pop on an empty stack has stopped a machine whose register 0 and memory
\* are not zero
C1_Witness ==
    /\ result = "stop" /\ last.op = 3 /\ last.stack = <<>> /\ stack = <<>>
    /\ registers[0] = 32767
    /\ mem_at(last.pos) = 3

\* C2: once a tick has returned false no call of tick or exec executes a
\* further instruction: the program counter, the registers, the memory, the
\* stack and the output stay as they are.
C2_HaltedIsTerminal ==
    [][result = "stop"
         => UNCHANGED <<pos, registers, memory, stack, stdout>>]_vars

\* C3: an executed `out S` whose value is in 0..255 appends exactly one byte,
\* equal to that value, to the output.
C3_OutWritesOneByte ==
    [][Executes(19) /\ Resolvable(registers, arg(1))
                    /\ Resolved(registers, arg(1)) \in 0..255
         => stdout' = Append(stdout, Resolved(registers, arg(1)))]_vars

\* C4: `in D` on an exhausted input panics without writing a register; with a
\* byte available it consumes exactly that byte and register D (a selector in
\* 32768..32775) holds the byte's value when tick returns true.
C4_InReadsOneByteOrFaults ==
    [][Executes(20)
         => IF stdin = <<>>
            THEN result' = "panic" /\ registers' = registers
            ELSE /\ stdin' = Tail(stdin)
                 /\ arg(1) \in 32768..32775
                      => /\ result' = "continue"
                         /\ (arg(1) - 32768) \in DOMAIN registers'
                         /\ registers'[arg(1) - 32768] = Head(stdin)]_vars

\* C5: resolution, observed through `push S`: a literal 0..32767 is pushed as
\* it is, a selector 32768..32775 pushes the content of register S - 32768,
\* and an operand of 32776 or more panics with nothing pushed.
C5_ResolveByRange ==
    [][Executes(2)
         => LET s == arg(1) IN
            /\ s <= 32767 => result' = "continue" /\ stack' = Append(stack, s)
            /\ s \in 32768..32775
                 => /\ result' = "continue"
                    /\ (s - 32768) \in DOMAIN registers
                    /\ stack' = Append(stack, registers[s - 32768])
            /\ s >= 32776 => result' = "panic" /\ stack' = stack]_vars

\* C6: for 15-bit values a and b, `add D,a,b` leaves (a + b) mod 32768 and
\* `mult D,a,b` leaves (a * b) mod 32768, the product taken in the integers,
\* in register D.
C6_AddMultModulo ==
    [][(Executes(9) \/ Executes(10))
         /\ arg(1) \in 32768..32775 /\ (arg(1) - 32768) \in DOMAIN registers
         /\ Resolvable(registers, arg(2)) /\ Resolved(registers, arg(2)) <= 32767
         /\ Resolvable(registers, arg(3)) /\ Resolved(registers, arg(3)) <= 32767
         => LET a == Resolved(registers, arg(2))
                b == Resolved(registers, arg(3))
            IN  /\ result' = "continue"
                /\ registers'[arg(1) - 32768] =
                     IF opcode = 9 THEN (a + b) % 32768 ELSE (a * b) % 32768]_vars

\* mult R0,32767,32767 has left 1 = 1073676289 mod 32768 in register 0
C6_Witness ==
    /\ After(10) /\ last.args = <<32768, 32767, 32767>>
    /\ registers[0] = 1

\* C7: `call S` pushes the address after its operand and sets the program
\* counter to the value of S; when the next tick executes `ret`, the program
\* counter is the address after the call and the stack is the one before the
\* call.
C7_CallRetRoundTrip ==
    [][/\ Executes(17) /\ Resolvable(registers, arg(1))
            => /\ result' = "continue"
               /\ stack' = Append(stack, pos + 2)
               /\ pos' = Resolved(registers, arg(1))
       /\ After(17) /\ Executes(18)
            => /\ result' = "continue"
               /\ pos' = last.pos + 2
               /\ stack' = last.stack]_vars

\* a ret has returned to the word after the call that targeted it, with a
\* stack that is not empty
C7_Witness ==
    /\ After(18) /\ pos >= 2
    /\ mem_at(pos - 2) = 17 /\ mem_at(pos - 1) = last.pos
    /\ last.stack = Append(stack, pos)
    /\ stack # <<>>

C9_ConditionalJumps ==
    [][(Executes(7) \/ Executes(8)) /\ Resolvable(registers, arg(1))
         => LET taken == IF opcode = 7 THEN Resolved(registers, arg(1)) # 0
                                       ELSE Resolved(registers, arg(1)) = 0
            IN  /\ registers' = registers /\ memory' = memory /\ stack' = stack
                /\ taken /\ Resolvable(registers, arg(2))
                     => result' = "continue"
                        /\ pos' = Resolved(registers, arg(2))
                /\ ~taken => result' = "continue" /\ pos' = pos + 3]_vars

\* jf with a nonzero condition has fallen through past a target that cannot
\* be resolved
C9_Witness ==
    /\ After(8) /\ last.args = <<32767, 32776>>
    /\ pos = last.pos + 3

\* C10: after `set R,v` with R in 32768..32775 and v a 15-bit literal, register
\* R holds v, the other registers, the memory and the stack are unchanged.
C10_SetThenRead ==
    [][Executes(1) /\ arg(1) \in 32768..32775 /\ arg(2) <= 32767
         => /\ result' = "continue"
            /\ DOMAIN registers' = 0..7
            /\ \A r \in 0..7 :
                 registers'[r] = IF r = arg(1) - 32768 THEN arg(2) ELSE registers[r]
            /\ memory' = memory
            /\ stack' = stack]_vars

\* set R7,200 has run on a machine whose register 0 was 32767
C10_Witness ==
    /\ After(1) /\ last.args = <<32775, 200>>
    /\ registers[7] = 200 /\ registers[0] = 32767

\* word a of memory m
Word(m, a) == IF a \in DOMAIN m.words THEN m.words[a] ELSE 0

\* the number of operand words the instruction set gives opcode k
OperandCount(k) ==
    IF k \in {0, 18, 21} THEN 0
    ELSE IF k \in {2, 3, 6, 17, 19, 20} THEN 1
    ELSE IF k \in {1, 7, 8, 14, 15, 16} THEN 2
    ELSE 3

\* the opcodes whose first operand is a destination register
DstOps == {1, 3, 4, 5, 9, 10, 11, 12, 13, 14, 15, 20}

\* the step is a call of load that read the file
Loads == result = "new" /\ result' \in {"loaded", "panic"} /\ steps' = steps

\* C11: `not R,v` followed by `not R,R` as the next tick leaves v in register
\* R, for every value v the operand of the first `not` can resolve to, and the
\* result of a `not` lies in 0..32767.
C11_NotTwice ==
    [][/\ Executes(14) /\ arg(1) \in 32768..32775
                       /\ (arg(1) - 32768) \in DOMAIN registers
                       /\ Resolvable(registers, arg(2))
            => /\ result' = "continue"
               /\ registers'[arg(1) - 32768] \in 0..32767
       /\ After(14) /\ Executes(14) /\ arg(1) \in 32768..32775
                    /\ (arg(1) - 32768) \in DOMAIN registers
                    /\ arg(1) = last.args[1] /\ arg(2) = arg(1)
            => /\ result' = "continue"
               /\ registers'[arg(1) - 32768] =
                     Resolved(last.registers, last.args[2])]_vars

\* C12: a machine that has just been constructed, by either constructor, has
\* 32768 zero words of memory, 8 zero registers, an empty stack and program
\* counter 0.
C12_ConstructorsAgree ==
    result = "new" /\ steps = 0
      => /\ memory = [len |-> 32768, words |-> <<>>]
         /\ registers = [r \in 0..7 |-> 0]
         /\ stack = <<>>
         /\ pos = 0

\* C13: load of a file of n <= 65536 bytes returns n without a fault, sets
\* memory word k to byte 2k + 256 * byte 2k+1 for every k < n div 2, ignores
\* an odd last byte and leaves the other words, the registers, the stack and
\* the program counter unchanged.
C13_LoadWords ==
    [][Loads /\ Len(file') <= 65536
         => /\ result' = "loaded"
            /\ read' = Len(file')
            /\ memory'.len = memory.len
            /\ \A k \in 0..((Len(file') \div 2) - 1) :
                  Word(memory', k) = file'[2 * k + 1] + 256 * file'[2 * k + 2]
            /\ \A a \in DOMAIN memory.words \cup DOMAIN memory'.words :
                  a >= Len(file') \div 2 => Word(memory', a) = Word(memory, a)
            /\ registers' = registers /\ stack' = stack /\ pos' = pos]_vars

\* C14: after a load that returned an I/O error no instruction is executed
\* (so the run cannot end in an ordinary halt).
C14_LoadErrorIsFatal ==
    [][result = "load_err" => ~Ticked]_vars

\* C15: in every reachable state every register holds a value in 0..32767.
C15_Registers15Bit ==
    \A r \in DOMAIN registers : registers[r] \in 0..32767

\* C16: a tick whose opcode or operand fetch, or whose rmem/wmem address, is
\* outside 0..32767 panics and changes no memory word (and no register).
C16_OutOfRangeIsFatal ==
    [][Ticked /\ (\/ pos > 32767
                  \/ pos + OperandCount(Word(memory, pos)) > 32767
                        /\ Word(memory, pos) <= 21
                  \/ /\ Executes(15) /\ Resolvable(registers, arg(2))
                     /\ Resolved(registers, arg(2)) > 32767
                  \/ /\ Executes(16) /\ Resolvable(registers, arg(1))
                     /\ Resolved(registers, arg(1)) > 32767)
         => /\ result' = "panic"
            /\ memory' = memory
            /\ registers' = registers]_vars

\* rmem R7,R0 has panicked on the address 32768 held by register 0
C16_Witness ==
    /\ result = "panic" /\ last.op = 15 /\ last.args = <<32775, 32768>>
    /\ last.registers[0] = 32768
    /\ registers = last.registers

\* C17: a tick that fetches an opcode word above 21 panics, with the program
\* counter just past that word and registers, memory and stack unchanged.
C17_InvalidOpcodeIsFatal ==
    [][Ticked /\ pos < memory.len /\ Word(memory, pos) > 21
         => /\ result' = "panic"
            /\ pos' = pos + 1
            /\ registers' = registers
            /\ memory' = memory
            /\ stack' = stack]_vars

\* the word 65535 at address 3 has stopped a machine whose register 0 is 32767
C17_Witness ==
    /\ result = "panic" /\ last.op = 65535 /\ last.pos = 3 /\ pos = 4
    /\ registers[0] = 32767

\* C18: an opcode k in 0..21 fetched at p, with its operands inside 0..32767,
\* is decoded with the OperandCount(k) raw words at p+1.. as its operands and
\* the program counter at p + 1 + OperandCount(k) when its effect is applied:
\* that is the program counter after every instruction that does not jump,
\* and the address `call` pushes.
C18_OperandFetch ==
    [][Ticked /\ pos < memory.len /\ Word(memory, pos) <= 21
              /\ pos + OperandCount(Word(memory, pos)) <= 32767
         => LET k == Word(memory, pos) IN
            /\ last'.op = k
            /\ last'.args = [i \in 1..OperandCount(k) |-> Word(memory, pos + i)]
            /\ k \notin {6, 7, 8, 17, 18} => pos' = pos + 1 + OperandCount(k)
            /\ k = 17 => stack' = Append(stack, pos + 2)]_vars

\* C19: an instruction whose destination operand D is not in 32768..32775
\* panics and writes no register; a D in 32768..32775 is used as it is, so
\* only register D - 32768 can change.
C19_BadDestinationIsFatal ==
    [][Executes(opcode) /\ opcode \in DstOps /\ (opcode = 3 => stack # <<>>)
         => IF arg(1) \notin 32768..32775
            THEN result' = "panic" /\ registers' = registers
            ELSE \A r \in DOMAIN registers :
                    r # arg(1) - 32768 => registers'[r] = registers[r]]_vars

\* set 0,1 has panicked and left 32767 in register 0
C19_Witness ==
    /\ result = "panic" /\ last.op = 1 /\ last.args = <<0, 1>>
    /\ registers[0] = 32767

\* C20: `wmem S1,S2` with the value of S1 in 0..32767 stores the value of S2
\* in that memory word and changes no other word, register or stack entry; an
\* `rmem D,S1` as the next tick leaves the stored value in register D, and a
\* fetch at that address decodes the stored word.
C20_WmemThenRmem ==
    [][/\ Executes(16) /\ Resolvable(registers, arg(1))
                       /\ Resolvable(registers, arg(2))
                       /\ Resolved(registers, arg(1)) <= 32767
            => /\ result' = "continue"
               /\ memory'.len = memory.len
               /\ \A a \in DOMAIN memory.words \cup DOMAIN memory'.words
                           \cup {Resolved(registers, arg(1))} :
                     Word(memory', a) = IF a = Resolved(registers, arg(1))
                                        THEN Resolved(registers, arg(2))
                                        ELSE Word(memory, a)
               /\ registers' = registers
               /\ stack' = stack
       /\ After(16) /\ Executes(15) /\ arg(2) = last.args[1]
                    /\ arg(1) \in 32768..32775
                    /\ (arg(1) - 32768) \in DOMAIN registers
            => /\ result' = "continue"
               /\ registers'[arg(1) - 32768] =
                     Resolved(last.registers, last.args[2])
       /\ After(16) /\ Ticked /\ pos = Resolved(last.registers, last.args[1])
            => last'.op = Resolved(last.registers, last.args[2])]_vars

\* wmem R0,65; rmem R1,R0 has stored 65 at address 32767 and read it back
C20_Witness ==
    /\ After(15) /\ last.args = <<32769, 32768>> /\ last.pos >= 3
    /\ mem_at(last.pos - 3) = 16 /\ mem_at(last.pos - 2) = 32768
    /\ mem_at(last.pos - 1) = 65
    /\ registers[0] = 32767 /\ mem_at(32767) = 65 /\ registers[1] = 65
====
